---- MODULE Spec2Model ----
(***************************************************************************)
(* Kernel methods on persistence diagrams                                  *)
(* (src/python/gudhi/representations/kernel_methods.py).                   *)
(*                                                                         *)
(* Numbers.  A kernel value of the weighted Gaussian family is a real      *)
(*     1/(sqrt(2 pi) bw) * SUM_k c[k] * exp(-k / (2 bw^2))                 *)
(* with integer c[k], k a squared Euclidean distance between lattice       *)
(* points.  It is kept exactly, as the record                              *)
(*     [kind |-> "value", bandwidth |-> bw, twice |-> [k |-> 2 * c[k]]]    *)
(* (coefficients are stored doubled so that the factor 0.5 of the scale    *)
(* space kernel stays integral).  The inner product of the approximate     *)
(* path multiplies exp(0) and is held at k = 0.  Floating point rounding   *)
(* is not modelled: arithmetic is exact.                                   *)
(*                                                                         *)
(* The diagram distances of metrics.py are external to this file; their    *)
(* results are kept as uninterpreted terms that record the function that   *)
(* was called and every argument it was given.                             *)
(***************************************************************************)
EXTENDS Integers, Sequences, FiniteSets, TLC

VARIABLES est, diagrams_, lastFit, op, args, ret

vars == <<est, diagrams_, lastFit, op, args, ret>>

\* ------------------------------------------------------------------ bounds
MaxPts == 2

MaxDiag == 2

\* ------------------------------------------------------------- value sets
Coord == {0, 1}

\* a point is <<birth, death>>
Points == Coord \X Coord

SeqsUpTo(S, n) == UNION {[1..k -> S] : k \in 0..n}

\* a diagram is an (n x 2) array, n = 0 allowed
Diagrams == SeqsUpTo(Points, MaxPts)

Bandwidths == {1, 2}

NumDirections == {10}

WeightFunctions == {"one", "persistence"}

KernelApproxes == {"None", "features"}

Err(type, arg) == [kind |-> "error", type |-> type, arg |-> arg]

IsErr(r) == r.kind = "error"

RECURSIVE SumTo(_, _)
SumTo(f, n) == IF n = 0 THEN 0 ELSE f[n] + SumTo(f, n - 1)

\* np.sum over a sequence of integers
SumSeq(f) == SumTo(f, Len(f))

SqDist(p, q) == (p[1] - q[1]) * (p[1] - q[1]) + (p[2] - q[2]) * (p[2] - q[2])

SqRange == {SqDist(p, q) : p \in Points, q \in Points}

\* ---------------------------------------------------- weighted Gaussian
\* The weight functions a caller can pass: the default lambda x: 1, the
\* persistence x[1] - x[0], and the sign weight of the scale space kernel.
weight_pss_strict(x) == IF x[2] > x[1] THEN 1 ELSE -1

weight_pss(x) == IF x[2] >= x[1] THEN 1 ELSE -1

ApplyWeight(weight, x) ==
    CASE weight = "one" -> 1
      [] weight = "persistence" -> x[2] - x[1]
      [] weight = "weight_pss" -> weight_pss(x)

\* sklearn.metrics.pairwise_distances(D1, D2): the (n x m) matrix of Euclidean
\* distances, each kept as its square.  Its input validation
\* (check_pairwise_arrays) rejects an array of 0 samples with a ValueError.
pairwise_distances(D1, D2) ==
    IF Len(D1) = 0 \/ Len(D2) = 0
    THEN Err("ValueError", "Found array with 0 sample(s)")
    ELSE [kind |-> "matrix",
          m |-> [i \in 1..Len(D1) |-> [j \in 1..Len(D2) |-> SqDist(D1[i], D2[j])]]]

\* kernel_approx.transform(D): one feature row per point of D
FeatDim == 2

Features(p) == [d \in 1..FeatDim |-> IF d = 1 THEN 1 ELSE p[1] + d * p[2]]

kernel_approx_transform(D) == [i \in 1..Len(D) |-> Features(D[i])]

\* np.sum(np.multiply(ws[:, newaxis], F), axis=0)
WeightedFeatureSum(ws, F) ==
    [d \in 1..FeatDim |-> SumSeq([i \in 1..Len(ws) |-> ws[i] * F[i][d]])]

Value(bandwidth, twice) == [kind |-> "value", bandwidth |-> bandwidth, twice |-> twice]

persistence_weighted_gaussian_kernel_ws1only(D1, D2, weight, kernel_approx, bandwidth) ==
    LET ws1 == [j \in 1..Len(D1) |-> ApplyWeight(weight, D1[j])]
        ws2 == [j \in 1..Len(D2) |-> 1]
    IN IF kernel_approx # "None"
       THEN LET approx1 == WeightedFeatureSum(ws1, kernel_approx_transform(D1))
                approx2 == WeightedFeatureSum(ws2, kernel_approx_transform(D2))
                dot == SumSeq([d \in 1..FeatDim |-> approx1[d] * approx2[d]])
            IN Value(bandwidth, [k \in SqRange |-> IF k = 0 THEN 2 * dot ELSE 0])
       ELSE LET W == [i \in 1..Len(D1) |-> [j \in 1..Len(D2) |-> ws1[i] * ws2[j]]]
                dist == pairwise_distances(D1, D2)
            IN IF IsErr(dist) THEN dist
               ELSE Value(bandwidth,
                      [k \in SqRange |->
                         2 * SumSeq([i \in 1..Len(D1) |->
                                SumSeq([j \in 1..Len(D2) |->
                                   IF dist.m[i][j] = k THEN W[i][j] ELSE 0])])])

persistence_weighted_gaussian_kernel(D1, D2, weight, kernel_approx, bandwidth) ==
    LET ws1 == [j \in 1..Len(D1) |-> ApplyWeight(weight, D1[j])]
        ws2 == [j \in 1..Len(D2) |-> ApplyWeight(weight, D2[j])]
    IN IF kernel_approx # "None"
       THEN LET approx1 == WeightedFeatureSum(ws1, kernel_approx_transform(D1))
                approx2 == WeightedFeatureSum(ws2, kernel_approx_transform(D2))
                dot == SumSeq([d \in 1..FeatDim |-> approx1[d] * approx2[d]])
            IN Value(bandwidth, [k \in SqRange |-> IF k = 0 THEN 2 * dot ELSE 0])
       ELSE LET W == [i \in 1..Len(D1) |-> [j \in 1..Len(D2) |-> ws1[i] * ws2[j]]]
                dist == pairwise_distances(D1, D2)
            IN IF IsErr(dist) THEN dist
               ELSE Value(bandwidth,
                      [k \in SqRange |->
                         2 * SumSeq([i \in 1..Len(D1) |->
                                SumSeq([j \in 1..Len(D2) |->
                                   IF dist.m[i][j] = k THEN W[i][j] ELSE 0])])])

\* ------------------------------------------------------------ scale space
\* np.concatenate([D, D[:, [1, 0]]], axis=0)
Symmetrize(D) == D \o [i \in 1..Len(D) |-> <<D[i][2], D[i][1]>>]

\* 0.5 * v
Half(v) ==
    IF IsErr(v) THEN v
    ELSE Value(v.bandwidth, [k \in DOMAIN v.twice |-> v.twice[k] \div 2])

persistence_scale_space_kernel(D1, D2, kernel_approx, bandwidth) ==
    LET DD1 == Symmetrize(D1)
        DD2 == Symmetrize(D2)
    IN Half(persistence_weighted_gaussian_kernel(DD1, DD2, "weight_pss",
                                                 kernel_approx, bandwidth))

\* ------------------------------------------------------ keyword arguments
\* **kwargs: the set of keys supplied and the value of each (absent keys hold
\* a filler that is never read).
Kwargs(keys, nd, bw, bwf, ka, w) ==
    [keys |-> keys,
     num_directions |-> IF "num_directions" \in keys THEN nd ELSE 0,
     bandwidth |-> IF "bandwidth" \in keys THEN bw ELSE 0,
     bandwidth_fisher |-> IF "bandwidth_fisher" \in keys THEN bwf ELSE 0,
     kernel_approx |-> IF "kernel_approx" \in keys THEN ka ELSE "-",
     weight |-> IF "weight" \in keys THEN w ELSE "-"]

\* kwargs[key]
Lookup(kwargs, key) ==
    IF key \in kwargs.keys THEN [kind |-> "ok"] ELSE Err("KeyError", key)

\* ------------------------------------------------- external collaborators
\* A diagram distance of metrics.py (sliced_wasserstein_distance,
\* persistence_fisher_distance): 0 between a diagram and itself, and otherwise
\* a term recording the distance called and the keyword arguments it received.
ZeroDistance ==
    [fn |-> "zero", D1 |-> <<>>, D2 |-> <<>>, kwargs |-> Kwargs({}, 0, 0, 0, "-", "-")]

DiagramDistance(metric, D1, D2, passed) ==
    IF D1 = D2 THEN ZeroDistance
    ELSE [fn |-> metric, D1 |-> D1, D2 |-> D2, kwargs |-> passed]

\* exp(-d / b): exp(0) = 1 whatever b is
ExpNeg(d, b) ==
    IF d = ZeroDistance
    THEN [fn |-> "exp_neg_div", dist |-> ZeroDistance, by |-> 1]
    ELSE [fn |-> "exp_neg_div", dist |-> d, by |-> b]

\* metrics.pairwise_persistence_diagram_distances(X, Y, metric=..., **passed):
\* the matrix of diagram distances (X against itself when Y is None).
pairwise_persistence_diagram_distances(X, Y, metric, passed) ==
    LET YY == IF Y.given THEN Y.v ELSE X
    IN [i \in 1..Len(X) |-> [j \in 1..Len(YY) |->
          DiagramDistance(metric, X[i], YY[j], passed)]]

\* np.exp(-M / b), elementwise
ExpNegDiv(M, b) ==
    [kind |-> "matrix",
     m |-> [i \in 1..Len(M) |-> [j \in 1..Len(M[i]) |-> ExpNeg(M[i][j], b)]]]

MaxLen(batch) ==
    CHOOSE n \in {Len(batch[i]) : i \in 1..Len(batch)} :
        \A i \in 1..Len(batch) : Len(batch[i]) <= n

\* preprocessing.Padding(use=True).fit_transform(batch): every diagram brought
\* to the common length L with rows <<birth, death, 1>> for its points and
\* filler rows <<0, 0, 0>> after them.
PaddingFitTransform(batch) ==
    LET L == MaxLen(batch)
    IN [i \in 1..Len(batch) |-> [r \in 1..L |->
          IF r <= Len(batch[i])
          THEN <<batch[i][r][1], batch[i][r][2], 1>>
          ELSE <<0, 0, 0>>]]

\* metrics.sklearn_wrapper(metric, **kwargs): flat_metric(row1, row2) reshapes a
\* flattened padded row to (L x 3) and keeps the coordinates of the rows whose
\* flag is 1.
Unpad(row) ==
    LET DD == [r \in 1..(Len(row) \div 3) |->
                 <<row[3 * r - 2], row[3 * r - 1], row[3 * r]>>]
        kept == SelectSeq(DD, LAMBDA t : t[3] = 1)
    IN [r \in 1..Len(kept) |-> <<kept[r][1], kept[r][2]>>]

\* ------------------------------------------------------------ dispatcher
None == [given |-> FALSE, v |-> <<>>]

Some(Y) == [given |-> TRUE, v |-> Y]

\* np.reshape(np.vstack(pD), [-1, diag_len * 3]): one flattened row per diagram
Flatten(pD) ==
    [i \in 1..Len(pD) |-> [c \in 1..(3 * Len(pD[i])) |->
          pD[i][((c - 1) \div 3) + 1][((c - 1) % 3) + 1]]]

\* lines 66-76.  With diag_len = 0 the target shape [-1, 0] cannot be inferred
\* for an array of size 0 and np.reshape raises ValueError.
PadStep(X, Y) ==
    IF ~Y.given
    THEN LET pX == PaddingFitTransform(X)
             diag_len == Len(pX[1])
         IN IF diag_len = 0 THEN Err("ValueError", "reshape")
            ELSE [kind |-> "padded", XX |-> Flatten(pX), YY |-> None]
    ELSE LET nX == Len(X)
             pD == PaddingFitTransform(X \o Y.v)
             diag_len == Len(pD[1])
         IN IF diag_len = 0 THEN Err("ValueError", "reshape")
            ELSE [kind |-> "padded",
                  XX |-> Flatten(SubSeq(pD, 1, nX)),
                  YY |-> Some(Flatten(SubSeq(pD, nX + 1, Len(pD))))]

\* metric(D1, D2, **kwargs) for the three kinds of callable handed to
\* sklearn_wrapper: the two kernels of this file, with their defaults and
\* Python's TypeError for a keyword the signature does not have, and a user
\* callable (uninterpreted, accepting any keyword).
CallMetric(metric, D1, D2, kwargs) ==
    CASE metric = "persistence_weighted_gaussian" ->
           IF ~(kwargs.keys \subseteq {"weight", "kernel_approx", "bandwidth"})
           THEN Err("TypeError", "unexpected keyword argument")
           ELSE persistence_weighted_gaussian_kernel(D1, D2,
                  IF "weight" \in kwargs.keys THEN kwargs.weight ELSE "one",
                  IF "kernel_approx" \in kwargs.keys THEN kwargs.kernel_approx ELSE "None",
                  IF "bandwidth" \in kwargs.keys THEN kwargs.bandwidth ELSE 1)
      [] metric = "persistence_scale_space" ->
           IF ~(kwargs.keys \subseteq {"kernel_approx", "bandwidth"})
           THEN Err("TypeError", "unexpected keyword argument")
           ELSE persistence_scale_space_kernel(D1, D2,
                  IF "kernel_approx" \in kwargs.keys THEN kwargs.kernel_approx ELSE "None",
                  IF "bandwidth" \in kwargs.keys THEN kwargs.bandwidth ELSE 1)
      [] OTHER ->
           [kind |-> "value", fn |-> metric, D1 |-> D1, D2 |-> D2, kwargs |-> kwargs]

\* sklearn.metrics.pairwise_kernels(XX, YY, metric=sklearn_wrapper(metric, **kwargs)).
\* With YY given the callable is applied to every pair of rows, in row-major
\* order.  With YY None the library evaluates the pairs i < j only, mirrors
\* them into the lower triangle and then evaluates the diagonal.  The first
\* exception raised aborts the call.
pairwise_kernels(XX, YY, metric, kwargs) ==
    LET ZZ == IF YY.given THEN YY.v ELSE XX
        Raw(i, j) == CallMetric(metric, Unpad(XX[i]), Unpad(ZZ[j]), kwargs)
        K == [i \in 1..Len(XX) |-> [j \in 1..Len(ZZ) |->
                IF ~YY.given /\ i > j THEN Raw(j, i) ELSE Raw(i, j)]]
        called == IF YY.given THEN (1..Len(XX)) \X (1..Len(ZZ))
                  ELSE {ij \in (1..Len(XX)) \X (1..Len(XX)) : ij[1] <= ij[2]}
        bad == {ij \in called : IsErr(Raw(ij[1], ij[2]))}
        \* position of a pair in the order of evaluation
        Before(a, b) ==
            IF ~YY.given /\ (a[1] = a[2]) # (b[1] = b[2])
            THEN a[1] # a[2]
            ELSE a[1] < b[1] \/ (a[1] = b[1] /\ a[2] <= b[2])
    IN IF bad = {} THEN [kind |-> "matrix", m |-> K]
       ELSE LET first == CHOOSE ij \in bad : \A o \in bad : Before(ij, o)
            IN Raw(first[1], first[2])

\* line 79
SlicedWassersteinBranch(X, Y, kwargs) ==
    IF IsErr(Lookup(kwargs, "num_directions")) THEN Lookup(kwargs, "num_directions")
    ELSE LET M == pairwise_persistence_diagram_distances(X, Y, "sliced_wasserstein",
                    Kwargs({"num_directions"}, kwargs.num_directions, 0, 0, "-", "-"))
         IN IF IsErr(Lookup(kwargs, "bandwidth")) THEN Lookup(kwargs, "bandwidth")
            ELSE ExpNegDiv(M, kwargs.bandwidth)

\* line 81: the distance is given kernel_approx=kwargs["kernel_approx"] and
\* bandwidth=kwargs["bandwidth"]; the quotient is by kwargs["bandwidth_fisher"].
PersistenceFisherBranch(X, Y, kwargs) ==
    IF IsErr(Lookup(kwargs, "kernel_approx")) THEN Lookup(kwargs, "kernel_approx")
    ELSE IF IsErr(Lookup(kwargs, "bandwidth")) THEN Lookup(kwargs, "bandwidth")
    ELSE LET M == pairwise_persistence_diagram_distances(X, Y, "persistence_fisher",
                    Kwargs({"kernel_approx", "bandwidth"}, 0, kwargs.bandwidth, 0,
                           kwargs.kernel_approx, "-"))
         IN IF IsErr(Lookup(kwargs, "bandwidth_fisher"))
            THEN Lookup(kwargs, "bandwidth_fisher")
            ELSE ExpNegDiv(M, kwargs.bandwidth_fisher)

\* lines 57-87
pairwise_persistence_diagram_kernels(X, Y, metric, kwargs) ==
    LET pad == PadStep(X, Y)
    IN IF IsErr(pad) THEN pad
       ELSE CASE metric = "sliced_wasserstein" -> SlicedWassersteinBranch(X, Y, kwargs)
              [] metric = "persistence_fisher" -> PersistenceFisherBranch(X, Y, kwargs)
              [] OTHER -> pairwise_kernels(pad.XX, pad.YY, metric, kwargs)

\* --------------------------------------------------------- the estimators
NoEstimator == [variant |-> "none", bandwidth |-> 0, bandwidth_fisher |-> 0,
                num_directions |-> 0, weight |-> "-", kernel_approx |-> "-"]

\* the four constructors (lines 93-102, 131-141, 170-178, 207-217)
SlicedWassersteinKernel(num_directions, bandwidth) ==
    [variant |-> "SlicedWassersteinKernel", bandwidth |-> bandwidth,
     bandwidth_fisher |-> 0, num_directions |-> num_directions,
     weight |-> "-", kernel_approx |-> "-"]

PersistenceWeightedGaussianKernel(bandwidth, weight, kernel_approx) ==
    [variant |-> "PersistenceWeightedGaussianKernel", bandwidth |-> bandwidth,
     bandwidth_fisher |-> 0, num_directions |-> 0,
     weight |-> weight, kernel_approx |-> kernel_approx]

PersistenceScaleSpaceKernel(bandwidth, kernel_approx) ==
    [variant |-> "PersistenceScaleSpaceKernel", bandwidth |-> bandwidth,
     bandwidth_fisher |-> 0, num_directions |-> 0,
     weight |-> "-", kernel_approx |-> kernel_approx]

PersistenceFisherKernel(bandwidth_fisher, bandwidth, kernel_approx) ==
    [variant |-> "PersistenceFisherKernel", bandwidth |-> bandwidth,
     bandwidth_fisher |-> bandwidth_fisher, num_directions |-> 0,
     weight |-> "-", kernel_approx |-> kernel_approx]

Estimators ==
    {SlicedWassersteinKernel(nd, bw) : nd \in NumDirections, bw \in Bandwidths}
    \cup {PersistenceWeightedGaussianKernel(bw, w, ka) :
            bw \in Bandwidths, w \in WeightFunctions, ka \in KernelApproxes}
    \cup {PersistenceScaleSpaceKernel(bw, ka) : bw \in Bandwidths, ka \in KernelApproxes}
    \cup {PersistenceFisherKernel(bwf, bw, ka) :
            bwf \in Bandwidths, bw \in Bandwidths, ka \in KernelApproxes}

\* the metric and keyword arguments each transform hands to the dispatcher
\* (lines 125, 164, 201, 240)
TransformMetric(e) ==
    CASE e.variant = "SlicedWassersteinKernel" -> "sliced_wasserstein"
      [] e.variant = "PersistenceWeightedGaussianKernel" -> "persistence_weighted_gaussian"
      [] e.variant = "PersistenceScaleSpaceKernel" -> "persistence_scale_space"
      [] e.variant = "PersistenceFisherKernel" -> "persistence_fisher"

TransformKwargs(e) ==
    CASE e.variant = "SlicedWassersteinKernel" ->
           Kwargs({"bandwidth", "num_directions"}, e.num_directions, e.bandwidth, 0, "-", "-")
      [] e.variant = "PersistenceWeightedGaussianKernel" ->
           Kwargs({"bandwidth", "weight", "kernel_approx"}, 0, e.bandwidth, 0,
                  e.kernel_approx, e.weight)
      [] e.variant = "PersistenceScaleSpaceKernel" ->
           Kwargs({"bandwidth", "kernel_approx"}, 0, e.bandwidth, 0, e.kernel_approx, "-")
      [] e.variant = "PersistenceFisherKernel" ->
           Kwargs({"bandwidth", "bandwidth_fisher", "kernel_approx"}, 0, e.bandwidth,
                  e.bandwidth_fisher, e.kernel_approx, "-")

\* the attribute diagrams_: absent until fit sets it
Unset == [set |-> FALSE, v |-> <<>>]

Stored(X) == [set |-> TRUE, v |-> X]

NoArgs == [none |-> TRUE]

NoRet == [kind |-> "none"]

Self == [kind |-> "self"]

\* ------------------------------------------------------------ input sets
SamplePoints == <<<<0, 1>>, <<0, 0>>, <<1, 1>>, <<1, 0>>>>

SampleDiagram(n) == [i \in 1..n |-> SamplePoints[((i - 1) % 4) + 1]]

NonEmptySeqsUpTo(S, n) == UNION {[1..k -> S] : k \in 1..n}

\* collections handed to the dispatcher
BatchDiagrams == {SampleDiagram(n) : n \in 0..MaxPts}

Collections == NonEmptySeqsUpTo(BatchDiagrams, MaxDiag)

\* collections handed to fit and transform
EstimatorDiagrams == {SampleDiagram(0), SampleDiagram(MaxPts)}

EstimatorCollections == NonEmptySeqsUpTo(EstimatorDiagrams, MaxDiag)

Labels == {"None", "y"}

DistanceKwargs ==
    {Kwargs(ks, 10, bw, bwf, "None", "-") :
        ks \in SUBSET {"num_directions", "bandwidth", "bandwidth_fisher", "kernel_approx"},
        bw \in Bandwidths, bwf \in Bandwidths}

PointKernelKwargs ==
    {Kwargs(ks, 0, 2, 0, ka, "persistence") :
        ks \in SUBSET {"bandwidth", "weight", "kernel_approx"}, ka \in KernelApproxes}

Calls ==
    ({"sliced_wasserstein", "persistence_fisher"} \X DistanceKwargs)
    \cup ({"persistence_scale_space", "persistence_weighted_gaussian", "custom"}
          \X PointKernelKwargs)

\* ------------------------------------------------------- estimator actions
\* fit(X, y) of every variant (lines 104-113, 143-152, 180-189, 219-228)
Fit(X, y) ==
    /\ diagrams_' = Stored(X)
    /\ lastFit' = Stored(X)
    /\ op' = "fit"
    /\ args' = [X |-> X, y |-> y]
    /\ ret' = Self
    /\ UNCHANGED est

Transform_storing(X) ==
    /\ op' = "transform"
    /\ args' = [X |-> X, y |-> "-"]
    /\ ret' = IF ~diagrams_.set
              THEN Err("AttributeError", "diagrams_")
              ELSE pairwise_persistence_diagram_kernels(X, Some(diagrams_.v),
                       TransformMetric(est), TransformKwargs(est))
    /\ diagrams_' = Stored(X)
    /\ UNCHANGED <<est, lastFit>>

Transform_selfkernel(X) ==
    /\ op' = "transform"
    /\ args' = [X |-> X, y |-> "-"]
    /\ ret' = pairwise_persistence_diagram_kernels(X,
                  IF diagrams_.set THEN Some(diagrams_.v) ELSE None,
                  TransformMetric(est), TransformKwargs(est))
    /\ UNCHANGED <<est, diagrams_, lastFit>>

\* transform(X) of every variant (lines 115-125, 154-164, 191-201, 230-240)
Transform(X) ==
    /\ op' = "transform"
    /\ args' = [X |-> X, y |-> "-"]
    /\ ret' = IF ~diagrams_.set
              THEN Err("AttributeError", "diagrams_")
              ELSE pairwise_persistence_diagram_kernels(X, Some(diagrams_.v),
                       TransformMetric(est), TransformKwargs(est))
    /\ UNCHANGED <<est, diagrams_, lastFit>>

\* the dispatcher called directly on the stored reference with the two
\* hyperparameters documented for the Fisher kernel
DirectFisherCall(X) ==
    /\ est.variant = "PersistenceFisherKernel"
    /\ diagrams_.set
    /\ op' = "direct"
    /\ args' = [X |-> X, y |-> "-"]
    /\ ret' = pairwise_persistence_diagram_kernels(X, Some(diagrams_.v), "persistence_fisher",
                  Kwargs({"bandwidth", "bandwidth_fisher"}, 0, est.bandwidth,
                         est.bandwidth_fisher, "-", "-"))
    /\ UNCHANGED <<est, diagrams_, lastFit>>

Init ==
    /\ est \in Estimators
    /\ diagrams_ = Unset
    /\ lastFit = Unset
    /\ op = "new"
    /\ args = NoArgs
    /\ ret = NoRet

Next ==
    \/ \E X \in EstimatorCollections, y \in Labels : Fit(X, y)
    \/ \E X \in EstimatorCollections : Transform(X)
    \/ \E X \in EstimatorCollections : DirectFisherCall(X)

Spec == Init /\ [][Next]_vars

\* ------------------------------------------------------- dispatcher calls
Dispatch ==
    /\ op = "idle"
    /\ \E X \in Collections, Y \in {None} \cup {Some(C) : C \in Collections},
          call \in Calls :
           /\ op' = "pairwise_persistence_diagram_kernels"
           /\ args' = [X |-> X, Y |-> Y, metric |-> call[1], kwargs |-> call[2]]
           /\ ret' = pairwise_persistence_diagram_kernels(X, Y, call[1], call[2])
    /\ UNCHANGED <<est, diagrams_, lastFit>>

\* ----------------------------------------------- scalar kernel evaluation
EvalWeightedGaussian ==
    /\ op = "idle"
    /\ \E D1 \in Diagrams, D2 \in Diagrams, w \in WeightFunctions,
          ka \in KernelApproxes, bw \in Bandwidths :
           /\ op' = "persistence_weighted_gaussian_kernel"
           /\ args' = [D1 |-> D1, D2 |-> D2, weight |-> w, kernel_approx |-> ka,
                       bandwidth |-> bw]
           /\ ret' = persistence_weighted_gaussian_kernel(D1, D2, w, ka, bw)
    /\ UNCHANGED <<est, diagrams_, lastFit>>

EvalScaleSpace ==
    /\ op = "idle"
    /\ \E D1 \in Diagrams, D2 \in Diagrams, ka \in KernelApproxes, bw \in Bandwidths :
           /\ op' = "persistence_scale_space_kernel"
           /\ args' = [D1 |-> D1, D2 |-> D2, weight |-> "-", kernel_approx |-> ka,
                       bandwidth |-> bw]
           /\ ret' = persistence_scale_space_kernel(D1, D2, ka, bw)
    /\ UNCHANGED <<est, diagrams_, lastFit>>

InitIdle ==
    /\ est = NoEstimator
    /\ diagrams_ = Unset
    /\ lastFit = Unset
    /\ op = "idle"
    /\ args = NoArgs
    /\ ret = NoRet

NextKernel == EvalWeightedGaussian \/ EvalScaleSpace

SpecKernel == InitIdle /\ [][NextKernel]_vars

NextDispatch == Dispatch

SpecDispatch == InitIdle /\ [][NextDispatch]_vars

\* ================================================================ claims
RECURSIVE SumOver(_, _)
SumOver(S, f) ==
    IF S = {} THEN 0
    ELSE LET x == CHOOSE y \in S : TRUE IN f[x] + SumOver(S \ {x}, f)

FeatureDot(p, q) == SumSeq([d \in 1..FeatDim |-> Features(p)[d] * Features(q)[d]])

\* The weighted Gaussian kernel as the formula of the specification: exact,
\* the sum over all pairs (i, j) of wA[i] * wB[j] * g(A[i], B[j]); approximate,
\* the inner product of the two weighted feature sums.  An empty sum is 0.
MathGaussian(A, wA, B, wB, kernel_approx, bandwidth) ==
    LET P == (1..Len(A)) \X (1..Len(B))
    IN IF kernel_approx = "None"
       THEN Value(bandwidth, [k \in SqRange |->
              2 * SumOver({pr \in P : SqDist(A[pr[1]], B[pr[2]]) = k},
                          [pr \in P |-> wA[pr[1]] * wB[pr[2]]])])
       ELSE Value(bandwidth, [k \in SqRange |->
              IF k = 0
              THEN 2 * SumOver(P, [pr \in P |->
                         wA[pr[1]] * wB[pr[2]] * FeatureDot(A[pr[1]], B[pr[2]])])
              ELSE 0])

MathWeights(D, weight) ==
    [i \in 1..Len(D) |-> IF weight = "one" THEN 1 ELSE D[i][2] - D[i][1]]

\* D followed by its coordinate-swapped copy, and the sign of each point
Augmented(D) ==
    [i \in 1..(2 * Len(D)) |->
        IF i <= Len(D) THEN D[i] ELSE <<D[i - Len(D)][2], D[i - Len(D)][1]>>]

Signs(A) == [i \in 1..Len(A) |-> IF A[i][2] >= A[i][1] THEN 1 ELSE -1]

MathScaleSpace(D1, D2, kernel_approx, bandwidth) ==
    LET A == Augmented(D1)
        B == Augmented(D2)
        v == MathGaussian(A, Signs(A), B, Signs(B), kernel_approx, bandwidth)
    IN Value(bandwidth, [k \in SqRange |-> v.twice[k] \div 2])

IsZero(v) == v.kind = "value" /\ \A k \in SqRange : v.twice[k] = 0

\* the batch a dispatcher call pads holds at least one point
HasPoint(X, Y) ==
    \/ \E i \in 1..Len(X) : Len(X[i]) > 0
    \/ Y.given /\ \E j \in 1..Len(Y.v) : Len(Y.v[j]) > 0

IsMatrixOf(r, P, Q, Entry(_, _)) ==
    /\ r.kind = "matrix"
    /\ Len(r.m) = P
    /\ \A i \in 1..P : Len(r.m[i]) = Q
    /\ \A i \in 1..P : \A j \in 1..Q : r.m[i][j] = Entry(i, j)

Dispatched == op = "pairwise_persistence_diagram_kernels"

\* ---------------------------------------------------------------- C1
\* C1: with metric "persistence_fisher" (all three keys supplied, a batch that
\* holds a point) the result is exp(-Dist / bandwidth) elementwise, where Dist
\* is the persistence Fisher distance computed with bandwidth_fisher.
C1_FisherBandwidths ==
    (/\ Dispatched
     /\ args.metric = "persistence_fisher"
     /\ {"kernel_approx", "bandwidth", "bandwidth_fisher"} \subseteq args.kwargs.keys
     /\ HasPoint(args.X, args.Y))
    => LET YY == IF args.Y.given THEN args.Y.v ELSE args.X
           Entry(i, j) ==
               ExpNeg(DiagramDistance("persistence_fisher", args.X[i], YY[j],
                                      Kwargs({"kernel_approx", "bandwidth"}, 0,
                                             args.kwargs.bandwidth_fisher, 0,
                                             args.kwargs.kernel_approx, "-")),
                      args.kwargs.bandwidth)
       IN IsMatrixOf(ret, Len(args.X), Len(YY), Entry)

\* ---------------------------------------------------------------- C2
\* The kernel value of each estimator variant between two diagrams, as the
\* specification defines it.
KernelValue(e, D1, D2) ==
    CASE e.variant = "SlicedWassersteinKernel" ->
           ExpNeg(DiagramDistance("sliced_wasserstein", D1, D2,
                      Kwargs({"num_directions"}, e.num_directions, 0, 0, "-", "-")),
                  e.bandwidth)
      [] e.variant = "PersistenceFisherKernel" ->
           ExpNeg(DiagramDistance("persistence_fisher", D1, D2,
                      Kwargs({"kernel_approx", "bandwidth"}, 0, e.bandwidth_fisher, 0,
                             e.kernel_approx, "-")),
                  e.bandwidth)
      [] e.variant = "PersistenceWeightedGaussianKernel" ->
           MathGaussian(D1, MathWeights(D1, e.weight), D2, MathWeights(D2, e.weight),
                        e.kernel_approx, e.bandwidth)
      [] e.variant = "PersistenceScaleSpaceKernel" ->
           MathScaleSpace(D1, D2, e.kernel_approx, e.bandwidth)

\* C2: after fit(R), transform(Q) returns the (|Q| x |R|) matrix whose entry
\* (i, j) is the kernel value between Q[i] and R[j].
C2_TransformMatrix ==
    (op = "transform" /\ diagrams_.set)
    => LET Entry(i, j) == KernelValue(est, args.X[i], diagrams_.v[j])
       IN IsMatrixOf(ret, Len(args.X), Len(diagrams_.v), Entry)

C4_UnfittedTransformFails ==
    [][(~diagrams_.set /\ op' = "transform")
       => (ret' = Err("AttributeError", "diagrams_") /\ ~diagrams_'.set)]_vars

C4_Witness ==
    /\ op = "transform"
    /\ ~diagrams_.set
    /\ IsErr(ret)
    /\ ret.type = "AttributeError"

\* ---------------------------------------------------------------- C5
RequiredKeys(metric) ==
    IF metric = "sliced_wasserstein" THEN {"num_directions", "bandwidth"}
    ELSE {"bandwidth_fisher", "bandwidth"}

\* C5: a dispatcher call for "sliced_wasserstein" or "persistence_fisher" that
\* lacks a required key fails with a KeyError naming a key that is absent, and
\* returns no matrix.
C5_MissingKeyIsKeyError ==
    (/\ Dispatched
     /\ args.metric \in {"sliced_wasserstein", "persistence_fisher"}
     /\ ~(RequiredKeys(args.metric) \subseteq args.kwargs.keys))
    => (IsErr(ret) /\ ret.type = "KeyError" /\ ret.arg \notin args.kwargs.keys)

\* ---------------------------------------------------------------- C6
\* C6: the weighted Gaussian kernel of an empty diagram with any diagram is 0,
\* never an error, on the exact and on the approximate path.
C6_EmptyDiagramIsZero ==
    (/\ op = "persistence_weighted_gaussian_kernel"
     /\ (Len(args.D1) = 0 \/ Len(args.D2) = 0))
    => IsZero(ret)

\* ---------------------------------------------------------------- C7
\* C7: swapping the two diagrams does not change the weighted Gaussian kernel,
\* for every weight function, bandwidth and approximation.
C7_Symmetric ==
    op = "persistence_weighted_gaussian_kernel"
    => ret = persistence_weighted_gaussian_kernel(args.D2, args.D1, args.weight,
                                                  args.kernel_approx, args.bandwidth)

C7_Witness ==
    /\ op = "persistence_weighted_gaussian_kernel"
    /\ args.kernel_approx = "None"
    /\ args.weight = "persistence"
    /\ Len(args.D1) = 1
    /\ Len(args.D2) = 2
    /\ ret.kind = "value"
    /\ \E k \in SqRange : ret.twice[k] # 0

PointKernelAccepts(metric, kwargs) ==
    CASE metric = "persistence_weighted_gaussian" ->
           kwargs.keys \subseteq {"weight", "kernel_approx", "bandwidth"}
      [] metric = "persistence_scale_space" ->
           kwargs.keys \subseteq {"kernel_approx", "bandwidth"}
      [] OTHER -> TRUE

\* C9: for "persistence_weighted_gaussian", "persistence_scale_space" or a
\* custom callable the result is the (P x Q) matrix whose entry (i, j) is the
\* scalar kernel applied to the raw diagrams A[i] and B[j] (B = A when B is
\* omitted); the call fails only if one of those evaluations fails.
C9_PointKernelMatrix ==
    (/\ Dispatched
     /\ args.metric \notin {"sliced_wasserstein", "persistence_fisher"}
     /\ PointKernelAccepts(args.metric, args.kwargs))
    => LET YY == IF args.Y.given THEN args.Y.v ELSE args.X
           Entry(i, j) == CallMetric(args.metric, args.X[i], YY[j], args.kwargs)
       IN IF \A i \in 1..Len(args.X) : \A j \in 1..Len(YY) : ~IsErr(Entry(i, j))
          THEN IsMatrixOf(ret, Len(args.X), Len(YY), Entry)
          ELSE IsErr(ret)

\* ---------------------------------------------------------------- C10
\* C10: a direct "persistence_fisher" call that supplies only bandwidth and
\* bandwidth_fisher fails with KeyError('kernel_approx'); the call made by
\* PersistenceFisherKernel.transform never fails with a KeyError.
C10_FisherNeedsKernelApprox ==
    /\ op = "direct" => ret = Err("KeyError", "kernel_approx")
    /\ (op = "transform" /\ est.variant = "PersistenceFisherKernel" /\ diagrams_.set)
       => ~(IsErr(ret) /\ ret.type = "KeyError")

\* -------------------------------------------------- supporting properties
\* The padding step is the only obstacle to the key-lookup contract: when the
\* padded batch holds a point, an absent required key is a KeyError.
MissingKeyIsKeyErrorWithPoint ==
    (Dispatched /\ HasPoint(args.X, args.Y)) => C5_MissingKeyIsKeyError

\* When the padded batch holds a point, the elementwise branches return the
\* matrix of scalar kernel values, except for a user callable with the second
\* collection omitted (the lower triangle is then mirrored, not evaluated).
PointKernelMatrixWithPoint ==
    (/\ Dispatched
     /\ HasPoint(args.X, args.Y)
     /\ (args.Y.given \/ args.metric # "custom"))
    => C9_PointKernelMatrix

\* When the padded batch holds a point, a direct Fisher call without
\* kernel_approx is a KeyError for that key.
FisherKeyErrorWithPoint ==
    (op = "direct" => HasPoint(args.X, Some(diagrams_.v)))
    => C10_FisherNeedsKernelApprox

\* With equal bandwidths, or for the sliced Wasserstein variant, and a batch
\* that holds a point, transform returns the matrix of kernel values.
DistanceTransformMatrixWithPoint ==
    (/\ op = "transform"
     /\ diagrams_.set
     /\ \/ est.variant = "SlicedWassersteinKernel"
        \/ (est.variant = "PersistenceFisherKernel"
            /\ est.bandwidth = est.bandwidth_fisher)
     /\ HasPoint(args.X, Some(diagrams_.v)))
    => C2_TransformMatrix

====
